---- MODULE Spec2Model ----
(***************************************************************************)
(* Model of package sigtool (src/sigtool.go, lines 99-256): extraction of  *)
(* the PKCS#7 signature of a PE file, ExtractDigitalSignature, its         *)
(* validation, IsValidDigitalSignature, and the command-line tool          *)
(* gosigtool that calls both (src/unnamed/part_000).                       *)
(*                                                                         *)
(* Scaling.  The code works on uint32 directory fields (modulus 2^32), on  *)
(* int64 file offsets and on a 10 MiB size limit.  The model keeps the     *)
(* arithmetic of the code and scales the magnitudes: a uint32 is a value   *)
(* modulo Word, the limit MaxSignatureSize is a value below Word and above *)
(* SecurityDirHeaderSize, and files are up to MaxFileLen bytes long, which *)
(* is more than Word (a file of 4 GiB or more).  int64 values never wrap   *)
(* in the code (they are sums of two values below 2^32) and are plain      *)
(* integers here.                                                          *)
(***************************************************************************)
EXTENDS Integers, Sequences, FiniteSets, TLC

\* Modulus of the uint32 type of vAddr and size (src/sigtool.go:160-161), scaled.
Word == 16

\* Largest file length of the model; larger than Word + SecurityDirHeaderSize.
MaxFileLen == 28

\* Number of successive calls of a caller.
MaxCalls == 2

\* src/sigtool.go:101
SecurityDirHeaderSize == 8

\* src/sigtool.go:103 (10 * 1024 * 1024), scaled to lie between
\* SecurityDirHeaderSize and Word.
MaxSignatureSize == 12

U32 == 0 .. (Word - 1)

\* uint32(x): the value of x in the wrapping uint32 arithmetic of Go.
ToU32(x) == x % Word

VARIABLES
    fileData,           \* the bytes of the file on disk, fileData[o + 1] at offset o
    peHeader,           \* what the file's headers hold: kind and security directory entry
    modified,           \* another process has shortened the file during the call
    callee,             \* the exported function that was called
    pc,                 \* position of the call of ExtractDigitalSignature
    filePath,           \* the argument of the call
    handles,            \* number of open handles of the file held by the call
    fileSize,           \* fileInfo.Size()
    vAddr,              \* DataDirectory[IMAGE_DIRECTORY_ENTRY_SECURITY].VirtualAddress
    size,               \* DataDirectory[IMAGE_DIRECTORY_ENTRY_SECURITY].Size
    signatureDataSize,  \* size - SecurityDirHeaderSize, uint32
    signatureOffset,    \* int64(vAddr + SecurityDirHeaderSize)
    buf,                \* the buffer of the payload
    reads,              \* the positioned reads issued so far
    result,             \* what ExtractDigitalSignature returned: [buf, err]
    trace,              \* what the call did to the file so far, in order
    vpc,                \* position of the call of IsValidDigitalSignature
    peExtract,          \* the bytes IsValidDigitalSignature got from the extraction
    pkcs7Calls,         \* the calls of the signed-data library, with their verdicts
    verr,               \* the error IsValidDigitalSignature returned
    history,            \* the calls that returned earlier, oldest first
    peer,               \* a second call of ExtractDigitalSignature, running concurrently
    cli,                \* the run of the command-line tool: flags, position, buf, exit
    writes              \* the calls of os.WriteFile of the command-line tool

\* The file and what other processes did to it.
fileVars == << fileData, peHeader, modified >>

\* The locals of ExtractDigitalSignature.
locals == << fileSize, vAddr, size, signatureDataSize, signatureOffset, buf >>

\* The state of IsValidDigitalSignature.
validation == << vpc, peExtract, pkcs7Calls, verr >>

\* The state of the command-line tool.
front == << cli, writes >>

vars == << fileData, peHeader, modified, callee, pc, filePath, handles, fileSize,
           vAddr, size, signatureDataSize, signatureOffset, buf, reads, result,
           trace, vpc, peExtract, pkcs7Calls, verr, history, peer, cli, writes >>

----------------------------------------------------------------------------
\* The file.

\* The byte at offset o of the input file; distinct at distinct offsets.
FileByte(o) == (7 * o + 3) % 256

FileContent(len) == [i \in 1 .. len |-> FileByte(i - 1)]

Paths == {"blank", "missing", "file"}

\* The headers a file can hold: no DOS or PE signature ("notPE"), a COFF
\* header without optional header ("noOptionalHeader"), an optional header
\* whose magic is neither 0x10b nor 0x20b ("badMagic"), or a PE32 or PE32+
\* optional header.  Only the last two have a data directory; its security
\* entry is any pair of uint32 values.
Headers ==
    [kind : {"PE32", "PE32+"}, vAddr : U32, size : U32]
      \cup [kind : {"notPE", "badMagic", "noOptionalHeader"}, vAddr : {0}, size : {0}]

NoResult == [buf |-> << >>, err |-> "pending"]

Return(b, e) == [buf |-> b, err |-> e]

----------------------------------------------------------------------------
\* The pure parts of ExtractDigitalSignature.

\* The comparison with < in place of ==.
NotSigned_Less(va, sz) == va < 0 \/ sz < 0

\* Not signed only when both fields are zero.
NotSigned_Both(va, sz) == va = 0 /\ sz = 0

\* if vAddr == 0 || size == 0: the file is reported as not signed.
NotSigned(va, sz) == va = 0 \/ sz = 0

\* The limit compared with the size of the payload, without its header.
ExceedsLimit_Payload(sz) == sz - SecurityDirHeaderSize > MaxSignatureSize

\* if size > MaxSignatureSize
ExceedsLimit(sz) == sz > MaxSignatureSize

\* The size of the entry taken as the size of the payload.
SignatureDataSize_WithHeader(sz) == ToU32(sz)

\* signatureDataSize := size - SecurityDirHeaderSize, a uint32 subtraction.
SignatureDataSize(sz) == ToU32(sz - SecurityDirHeaderSize)

\* The offset without the 8 bytes of the header of the security directory.
SignatureOffset_NoSkip(va) == ToU32(va)

\* signatureOffset := int64(vAddr + SecurityDirHeaderSize): the sum is taken
\* in uint32 and widened afterwards.
SignatureOffset(va) == ToU32(va + SecurityDirHeaderSize)

\* if signatureOffset < 0 || signatureOffset >= fileSize
OffsetOutOfBounds(off, fsz) == off < 0 \/ off >= fsz

\* The size alone compared with the length of the file.
RegionExceedsFile_SizeOnly(off, len, fsz) == len > fsz

\* if signatureOffset+int64(signatureDataSize) > fileSize
RegionExceedsFile(off, len, fsz) == off + len > fsz

\* The validation of the security directory entry, in the order of the code:
\* the error it returns, "nil" when every check passes.
BoundsCheck(va, sz, fsz) ==
    IF NotSigned(va, sz) THEN "NotSigned"
    ELSE IF ExceedsLimit(sz) THEN "SizeLimitExceeded"
    ELSE IF OffsetOutOfBounds(SignatureOffset(va), fsz) THEN "OffsetOutOfBounds"
    ELSE IF RegionExceedsFile(SignatureOffset(va), SignatureDataSize(sz), fsz)
         THEN "RegionExceedsFile"
    ELSE "nil"

\* A buffer kept between the calls and grown by len bytes at each.
MakeBuf_Reused(len) ==
    IF history = << >> THEN [i \in 1 .. len |-> 0]
    ELSE history[Len(history)].result.buf \o [i \in 1 .. len |-> 0]

\* make([]byte, len): a zeroed buffer.
MakeBuf(len) == [i \in 1 .. len |-> 0]

Min(a, b) == IF a < b THEN a ELSE b

\* f.ReadAt(b, off) on a file holding data: the bytes from off on, as many as
\* b takes and the file has; n < len(b) comes with a non-nil error, io.EOF at
\* the end of the file.  ioError: the read system call fails; with an empty b
\* no system call is made and the result is (0, nil).
ReadAt(data, b, off, ioError) ==
    LET avail  == IF off >= Len(data) THEN 0 ELSE Len(data) - off
        failed == ioError /\ Len(b) > 0
        n      == IF failed THEN 0 ELSE Min(Len(b), avail)
    IN  [n   |-> n,
         err |-> IF failed THEN "EIO" ELSE IF n < Len(b) THEN "EOF" ELSE "nil",
         buf |-> [i \in 1 .. Len(b) |-> IF i <= n THEN data[off + i] ELSE b[i]]]

\* The result of ReadAt ignored, the buffer returned as it is.
ReadOutcome_Unchecked(r, len) == Return(r.buf, "nil")

\* The buffer returned together with the error.
ReadOutcome_Partial(r, len) ==
    IF r.err # "nil" THEN Return(r.buf, "ReadFailed")
    ELSE IF r.n # len THEN Return(r.buf, "IncompleteRead")
    ELSE Return(r.buf, "nil")

\* What the call returns after the read r of a buffer of len bytes.
ReadOutcome(r, len) ==
    IF r.err # "nil" THEN Return(<< >>, "ReadFailed")
    ELSE IF r.n # len THEN Return(<< >>, "IncompleteRead")
    ELSE Return(r.buf, "nil")

\* The values the call formats into the message of the error e, each with the
\* name of the variable it comes from: the arguments of fmt.Errorf after the
\* format string.  sz, off and len are size, signatureOffset and
\* signatureDataSize, fsz is fileSize and n the count ReadAt returned.
ErrorArgs(e, sz, off, len, fsz, n) ==
    CASE e = "SizeLimitExceeded" ->
           << [name |-> "size", value |-> sz],
              [name |-> "MaxSignatureSize", value |-> MaxSignatureSize] >>
      [] e = "OffsetOutOfBounds" ->
           << [name |-> "signatureOffset", value |-> off],
              [name |-> "fileSize", value |-> fsz] >>
      [] e = "IncompleteRead" ->
           << [name |-> "signatureDataSize", value |-> len],
              [name |-> "n", value |-> n] >>
      [] OTHER -> << >>

----------------------------------------------------------------------------
\* The pure parts of the calls around the validation.

\* No check of the path (the version of lines 12-16).
BlankPath_Unchecked(p) == FALSE

\* strings.TrimSpace(filePath) == ""
BlankPath(p) == p = "blank"

\* The error of os.Open ignored.
OpenFails_Ignored(p) == FALSE

\* os.Open(filePath) returns an error.
OpenFails(p) == p = "missing"

\* The error of pe.NewFile ignored.
NewFileFails_Ignored(hdr) == FALSE

\* pe.NewFile(f) returns an error: the DOS or PE signature is missing, a
\* header lies outside the file, or the optional header has an unexpected
\* magic (debug/pe of Go 1.21 and later rejects it).
NewFileFails(hdr) == hdr.kind \in {"notPE", "badMagic"}

\* A switch without default branch (the version of lines 21-28).
UnsupportedHeader_NoDefault(hdr) == FALSE

\* The default branch of the switch on pefile.OptionalHeader: the header is
\* neither *pe.OptionalHeader32 nor *pe.OptionalHeader64.
UnsupportedHeader(hdr) == hdr.kind \notin {"PE32", "PE32+"}

\* The error of pkcs7.Parse ignored.
Verdict_ParseIgnored(parseOK, verifyOK) ==
    IF ~verifyOK THEN "VerificationFailed" ELSE "nil"

\* The error of Verify wrapped as a parse error.
Verdict_OneKind(parseOK, verifyOK) ==
    IF ~parseOK \/ ~verifyOK THEN "SignatureStructureInvalid" ELSE "nil"

\* What the calls of the signed-data library return for the verdicts of the
\* parser and of the verifier: the error of IsValidDigitalSignature.
Verdict(parseOK, verifyOK) ==
    IF ~parseOK THEN "SignatureStructureInvalid"
    ELSE IF ~verifyOK THEN "VerificationFailed"
    ELSE "nil"

\* Verify called whatever Parse returned.
Pkcs7Calls_Eager(parseOK, verifyOK) ==
    << [fn |-> "Parse", ok |-> parseOK], [fn |-> "Verify", ok |-> verifyOK] >>

\* The calls of the signed-data library made for these verdicts: Verify runs
\* on what Parse returned only.
Pkcs7Calls(parseOK, verifyOK) ==
    IF ~parseOK THEN << [fn |-> "Parse", ok |-> FALSE] >>
    ELSE << [fn |-> "Parse", ok |-> TRUE], [fn |-> "Verify", ok |-> verifyOK] >>

\* The second call before it starts: its argument, the file it names, its
\* position, its locals and what it returned; overlapped: it opened its file
\* while the first call was between its os.Open and its return.
PeerIdle ==
    [pc |-> "idle", path |-> "none", file |-> "none", fileSize |-> 0,
     signatureOffset |-> 0, signatureDataSize |-> 0, buf |-> << >>,
     ioFailed |-> FALSE, overlapped |-> FALSE, result |-> NoResult]

\* The bytes of the second file of the concurrent callers: as long as the
\* first, with another byte at every offset.
OtherData(data) == [i \in 1 .. Len(data) |-> (data[i] + 1) % 256]

\* The bytes of the file a concurrent call works on.
DataOf(file) == IF file = "same" THEN fileData ELSE OtherData(fileData)

\* One buffer of the package for all the calls: the one of the first call.
PeerBuf_Shared(b) == buf

\* The buffer the second call reads into: b, its own.
PeerBuf(b) == b

\* The values of the flag -in: a path, or "empty" when the flag is not given.
InParams == Paths \cup {"empty"}

\* The values of the flag -out: a path, or "empty" when the flag is not given.
OutParams == {"empty", "out"}

\* The command-line tool before it runs: its flags, its position, the buf of
\* main, its exit status (-1 while it runs) and what it printed.
CliIdle ==
    [pc |-> "start", inParam |-> "empty", outParam |-> "empty",
     validate |-> FALSE, buf |-> << >>, exit |-> -1, stdout |-> << >>,
     stderr |-> << >>]

\* outputPath: -out when given, filepath.Base(in) + ".pkcs7" otherwise.
OutputPath(in, out) ==
    IF out # "empty" THEN [base |-> out, ext |-> ""]
    ELSE [base |-> in, ext |-> ".pkcs7"]

\* os.Create in place of os.Open: the file is emptied.
OpenedFile_Created(data) == << >>

\* The bytes of the file after os.Open(filePath): the file is opened with
\* O_RDONLY and keeps its bytes.
OpenedFile(data) == data

----------------------------------------------------------------------------
\* The state machine.

Init ==
    /\ peHeader \in Headers
    /\ fileData \in {FileContent(len) : len \in 0 .. MaxFileLen}
    /\ peHeader.kind # "notPE" => Len(fileData) >= 1
    /\ modified = FALSE
    /\ callee = "none"
    /\ pc = "idle"
    /\ filePath = "none"
    /\ handles = 0
    /\ fileSize = 0
    /\ vAddr = 0
    /\ size = 0
    /\ signatureDataSize = 0
    /\ signatureOffset = 0
    /\ buf = << >>
    /\ reads = << >>
    /\ result = NoResult
    /\ trace = << >>
    /\ vpc = "idle"
    /\ peExtract = << >>
    /\ pkcs7Calls = << >>
    /\ verr = "pending"
    /\ history = << >>
    /\ peer = PeerIdle
    /\ cli = CliIdle
    /\ writes = << >>

\* A return without the deferred f.Close.
Finish_Leak(b, e) ==
    /\ pc' = "done"
    /\ result' = Return(b, e)
    /\ handles' = handles

\* The call returns (b, e); the deferred Close calls release the handle.
Finish(b, e) ==
    /\ pc' = "done"
    /\ result' = Return(b, e)
    /\ handles' = 0

\* The trace t after the deferred f.Close of a call that holds a handle.
Closed(t) == IF handles > 0 THEN Append(t, "close") ELSE t

\* IsValidDigitalSignature(p) up to the call of ExtractDigitalSignature.
Validate(p) ==
    /\ callee = "none"
    /\ callee' = "IsValid"
    /\ filePath' = p
    /\ IF BlankPath(p)
       THEN /\ vpc' = "done"
            /\ verr' = "InvalidArgument"
       ELSE /\ vpc' = "extracting"
            /\ UNCHANGED verr
    /\ UNCHANGED << fileVars, locals, pc, handles, reads, result, trace,
                    peExtract, pkcs7Calls, history, peer, front >>

\* ExtractDigitalSignature(p) up to os.Open, called directly or by
\* IsValidDigitalSignature.
Open(p) ==
    /\ pc = "idle"
    /\ \/ callee = "none" /\ callee' = "Extract"
       \/ callee = "IsValid" /\ vpc = "extracting" /\ p = filePath
                             /\ UNCHANGED callee
    /\ filePath' = p
    /\ IF BlankPath(p)
       THEN /\ Finish(<< >>, "InvalidArgument")
            /\ UNCHANGED trace
       ELSE IF OpenFails(p)
       THEN /\ Finish(<< >>, "OpenFailed")
            /\ trace' = Append(trace, "open")
       ELSE /\ pc' = "opened"
            /\ handles' = handles + 1
            /\ trace' = Append(trace, "open")
            /\ UNCHANGED result
    /\ fileData' = (IF BlankPath(p) \/ OpenFails(p) THEN fileData
                    ELSE OpenedFile(fileData))
    /\ UNCHANGED << peHeader, modified, locals, reads, validation, history, peer,
                    front >>

\* f.Stat() and fileInfo.Size().
Stat(ok) ==
    /\ pc = "opened"
    /\ IF ok
       THEN /\ fileSize' = Len(fileData)
            /\ pc' = "statted"
            /\ trace' = Append(trace, "stat")
            /\ UNCHANGED << result, handles >>
       ELSE /\ Finish(<< >>, "StatFailed")
            /\ trace' = Closed(Append(trace, "stat"))
            /\ UNCHANGED fileSize
    /\ UNCHANGED << fileVars, callee, filePath, vAddr, size, signatureDataSize,
                    signatureOffset, buf, reads, validation, history, peer, front >>

\* pe.NewFile, the switch on the optional header, the validation of the
\* security directory entry and the allocation of the buffer.
Parse ==
    /\ pc = "statted"
    /\ IF NewFileFails(peHeader)
       THEN /\ Finish(<< >>, "MalformedContainer")
            /\ trace' = Closed(Append(trace, "newfile"))
            /\ UNCHANGED << vAddr, size, signatureDataSize, signatureOffset, buf >>
       ELSE IF UnsupportedHeader(peHeader)
       THEN /\ Finish(<< >>, "UnsupportedFormat")
            /\ trace' = Closed(Append(trace, "newfile"))
            /\ UNCHANGED << vAddr, size, signatureDataSize, signatureOffset, buf >>
       ELSE /\ vAddr' = peHeader.vAddr
            /\ size' = peHeader.size
            /\ LET e == BoundsCheck(peHeader.vAddr, peHeader.size, fileSize)
               IN  IF e # "nil"
                   THEN /\ Finish(<< >>, e)
                        /\ trace' = Closed(trace \o << "newfile", "entry" >>)
                        /\ UNCHANGED << signatureDataSize, signatureOffset, buf >>
                   ELSE /\ signatureDataSize' = SignatureDataSize(peHeader.size)
                        /\ signatureOffset' = SignatureOffset(peHeader.vAddr)
                        /\ buf' = MakeBuf(SignatureDataSize(peHeader.size))
                        /\ pc' = "reading"
                        /\ trace' = trace \o << "newfile", "entry" >>
                        /\ UNCHANGED << result, handles >>
    /\ UNCHANGED << fileVars, callee, filePath, fileSize, reads, validation,
                    history, peer, front >>

\* f.ReadAt(buf, signatureOffset) and the return of the call.
Read(ioError) ==
    /\ pc = "reading"
    /\ LET r == ReadAt(fileData, buf, signatureOffset, ioError)
           o == ReadOutcome(r, signatureDataSize)
       IN  /\ buf' = r.buf
           /\ reads' = Append(reads, [off |-> signatureOffset, len |-> Len(buf),
                                      fileLen |-> Len(fileData),
                                      ioError |-> ioError])
           /\ Finish(o.buf, o.err)
           /\ trace' = Closed(Append(trace, "readat"))
    /\ UNCHANGED << fileVars, callee, filePath, fileSize, vAddr, size,
                    signatureDataSize, signatureOffset, validation, history, peer, front >>

\* IsValidDigitalSignature after ExtractDigitalSignature returned: the
\* extraction error wrapped, or pkcs7.Parse(peExtract) and pc.Verify().
Verify(parseOK, verifyOK) ==
    /\ callee = "IsValid"
    /\ vpc = "extracting"
    /\ pc = "done"
    /\ vpc' = "done"
    /\ IF result.err # "nil"
       THEN /\ verr' = "ExtractionFailed"
            /\ UNCHANGED << peExtract, pkcs7Calls >>
       ELSE /\ peExtract' = result.buf
            /\ pkcs7Calls' = Pkcs7Calls(parseOK, verifyOK)
            /\ verr' = Verdict(parseOK, verifyOK)
    /\ UNCHANGED << fileVars, locals, callee, pc, filePath, handles, reads,
                    result, trace, history, peer, front >>

\* Another process shortens the file to newLen bytes between the length
\* check and the read.
Truncate(newLen) ==
    /\ pc = "reading"
    /\ ~modified
    /\ newLen < Len(fileData)
    /\ fileData' = SubSeq(fileData, 1, newLen)
    /\ modified' = TRUE
    /\ UNCHANGED << peHeader, locals, callee, pc, filePath, handles, reads,
                    result, trace, validation, history, peer, front >>

Next ==
    \/ \E p \in Paths : Validate(p)
    \/ \E p \in Paths : Open(p)
    \/ \E ok \in BOOLEAN : Stat(ok)
    \/ Parse
    \/ \E ioError \in BOOLEAN : Read(ioError)
    \/ \E parseOK, verifyOK \in BOOLEAN : Verify(parseOK, verifyOK)
    \/ \E newLen \in 0 .. MaxFileLen : Truncate(newLen)

Spec == Init /\ [][Next]_vars

\* The files of the callers that make several calls: as long as the limit,
\* so that an entry can lie inside the file, end past it or start past it.
InitSeq ==
    /\ Init
    /\ Len(fileData) = MaxSignatureSize

\* What ExtractDigitalSignature(p) returns when it runs alone on a file
\* holding data and the headers hdr, and no system call fails.
ExtractAlone(p, data, hdr) ==
    IF BlankPath(p) THEN Return(<< >>, "InvalidArgument")
    ELSE IF OpenFails(p) THEN Return(<< >>, "OpenFailed")
    ELSE IF NewFileFails(hdr) THEN Return(<< >>, "MalformedContainer")
    ELSE IF UnsupportedHeader(hdr) THEN Return(<< >>, "UnsupportedFormat")
    ELSE LET e == BoundsCheck(hdr.vAddr, hdr.size, Len(data))
             len == SignatureDataSize(hdr.size)
         IN  IF e # "nil" THEN Return(<< >>, e)
             ELSE ReadOutcome(ReadAt(data, MakeBuf(len), SignatureOffset(hdr.vAddr),
                                     FALSE), len)

\* The second call returns (b, e).
PeerFinish(b, e, failed) ==
    peer' = [peer EXCEPT !.pc = "done", !.result = Return(b, e),
                         !.ioFailed = failed]

\* The second call of ExtractDigitalSignature(p) up to os.Open, on the same
\* file or on the other one.
PeerOpen(p, file) ==
    /\ peer.pc = "idle"
    /\ callee \in {"none", "Extract"}
    /\ IF BlankPath(p)
       THEN peer' = [peer EXCEPT !.pc = "done", !.path = p,
                                 !.result = Return(<< >>, "InvalidArgument")]
       ELSE IF OpenFails(p)
       THEN peer' = [peer EXCEPT !.pc = "done", !.path = p,
                                 !.result = Return(<< >>, "OpenFailed")]
       ELSE peer' = [peer EXCEPT !.pc = "opened", !.path = p, !.file = file,
                                 !.overlapped = pc \in {"opened", "statted", "reading"}]
    /\ UNCHANGED << fileVars, locals, callee, pc, filePath, handles, reads,
                    result, trace, validation, history,
                    front >>

\* f.Stat() of the second call.
PeerStat(ok) ==
    /\ peer.pc = "opened"
    /\ IF ok
       THEN peer' = [peer EXCEPT !.pc = "statted",
                                 !.fileSize = Len(DataOf(peer.file))]
       ELSE PeerFinish(<< >>, "StatFailed", TRUE)
    /\ UNCHANGED << fileVars, locals, callee, pc, filePath, handles, reads,
                    result, trace, validation, history,
                    front >>

\* pe.NewFile, the switch, the validation and the allocation of the second
\* call; both files hold the same headers.
PeerParse ==
    /\ peer.pc = "statted"
    /\ IF NewFileFails(peHeader)
       THEN PeerFinish(<< >>, "MalformedContainer", FALSE)
       ELSE IF UnsupportedHeader(peHeader)
       THEN PeerFinish(<< >>, "UnsupportedFormat", FALSE)
       ELSE LET e == BoundsCheck(peHeader.vAddr, peHeader.size, peer.fileSize)
            IN  IF e # "nil"
                THEN PeerFinish(<< >>, e, FALSE)
                ELSE peer' = [peer EXCEPT
                                !.pc = "reading",
                                !.signatureDataSize = SignatureDataSize(peHeader.size),
                                !.signatureOffset = SignatureOffset(peHeader.vAddr),
                                !.buf = MakeBuf(SignatureDataSize(peHeader.size))]
    /\ UNCHANGED << fileVars, locals, callee, pc, filePath, handles, reads,
                    result, trace, validation, history,
                    front >>

\* f.ReadAt and the return of the second call.
PeerRead(ioError) ==
    /\ peer.pc = "reading"
    /\ LET r == ReadAt(DataOf(peer.file), PeerBuf(peer.buf), peer.signatureOffset,
                       ioError)
           o == ReadOutcome(r, peer.signatureDataSize)
       IN  peer' = [peer EXCEPT !.pc = "done", !.buf = r.buf,
                                !.result = Return(o.buf, o.err),
                                !.ioFailed = ioError]
    /\ UNCHANGED << fileVars, locals, callee, pc, filePath, handles, reads,
                    result, trace, validation, history,
                    front >>

NextConc ==
    \/ \E p \in Paths : Open(p)
    \/ \E ok \in BOOLEAN : Stat(ok)
    \/ Parse
    \/ \E ioError \in BOOLEAN : Read(ioError)
    \/ \E p \in Paths, file \in {"same", "other"} : PeerOpen(p, file)
    \/ \E ok \in BOOLEAN : PeerStat(ok)
    \/ PeerParse
    \/ \E ioError \in BOOLEAN : PeerRead(ioError)

\* Two callers of ExtractDigitalSignature running concurrently on files that
\* no process modifies.
SpecConc == InitSeq /\ [][NextConc]_vars

\* A system call of the call that returned has failed.
IoFailed ==
    \/ result.err = "StatFailed"
    \/ \E k \in 1 .. Len(reads) : reads[k].ioError

\* The exported function that was called has returned.
Returned ==
    \/ callee = "Extract" /\ pc = "done"
    \/ callee = "IsValid" /\ vpc = "done"

\* The call that returned is kept in the history and the locals of the next
\* call are fresh.
NextCall ==
    /\ history' = Append(history, [callee |-> callee, path |-> filePath,
                                   result |-> result, verr |-> verr,
                                   peExtract |-> peExtract, ioFailed |-> IoFailed])
    /\ callee' = "none"
    /\ pc' = "idle"
    /\ filePath' = "none"
    /\ fileSize' = 0
    /\ vAddr' = 0
    /\ size' = 0
    /\ signatureDataSize' = 0
    /\ signatureOffset' = 0
    /\ buf' = << >>
    /\ reads' = << >>
    /\ result' = NoResult
    /\ trace' = << >>
    /\ vpc' = "idle"
    /\ peExtract' = << >>
    /\ pkcs7Calls' = << >>
    /\ verr' = "pending"

\* The caller goes on to its next call; the handles of the process and the
\* file stay as they are.
Again ==
    /\ Returned
    /\ Len(history) < MaxCalls - 1
    /\ NextCall
    /\ UNCHANGED << fileVars, handles, peer, front >>

NextSeq ==
    \/ Next
    \/ Again

\* A caller that makes up to MaxCalls calls, one after the other.
SpecSeq == InitSeq /\ [][NextSeq]_vars

----------------------------------------------------------------------------
\* The command-line tool.

\* What a call of the package works with, its handle apart.
call == << callee, pc, filePath, locals, reads, result, trace, validation,
           history >>

\* The tool exits with status 1 after the message msg on standard error.
Fail(msg) ==
    [cli EXCEPT !.pc = "exited", !.exit = 1, !.stderr = Append(@, msg)]

\* main up to the call of ExtractDigitalSignature: the flags are parsed, and
\* the tool exits when -in is not given.
Main(in, out, validate) ==
    /\ cli.pc = "start"
    /\ IF in = "empty"
       THEN cli' = Fail("Error: input file (-in) is required")
       ELSE cli' = [cli EXCEPT !.pc = "extracting", !.inParam = in,
                               !.outParam = out, !.validate = validate]
    /\ UNCHANGED << fileVars, call, handles, peer, writes >>

\* The flag -validate ignored: the tool goes on to write.
Extracted_NoValidate ==
    /\ cli.pc = "extracting"
    /\ callee = "Extract"
    /\ pc = "done"
    /\ IF result.err # "nil"
       THEN cli' = Fail("Error extracting signature")
       ELSE cli' = [cli EXCEPT !.pc = "writing", !.buf = result.buf]
    /\ UNCHANGED << fileVars, call, handles, peer, writes >>

\* main after ExtractDigitalSignature(*inParam) returned: the tool exits on
\* an error, keeps the bytes in buf, and goes on to the validation when
\* -validate is given, to the output otherwise.
Extracted ==
    /\ cli.pc = "extracting"
    /\ callee = "Extract"
    /\ pc = "done"
    /\ IF result.err # "nil"
       THEN /\ cli' = Fail("Error extracting signature")
            /\ UNCHANGED call
       ELSE IF cli.validate
       THEN /\ cli' = [cli EXCEPT !.pc = "validating", !.buf = result.buf]
            /\ NextCall
       ELSE /\ cli' = [cli EXCEPT !.pc = "writing", !.buf = result.buf]
            /\ UNCHANGED call
    /\ UNCHANGED << fileVars, handles, peer, writes >>

\* The error of IsValidDigitalSignature printed, the tool going on to write.
Validated_Ignored ==
    /\ cli.pc = "validating"
    /\ callee = "IsValid"
    /\ vpc = "done"
    /\ cli' = [cli EXCEPT !.pc = "writing",
                          !.stdout = IF verr = "nil"
                                     THEN Append(@, "Signature is valid") ELSE @,
                          !.stderr = IF verr # "nil"
                                     THEN Append(@, "Error validating signature")
                                     ELSE @]
    /\ UNCHANGED << fileVars, call, handles, peer, writes >>

\* main after IsValidDigitalSignature(*inParam) returned: the tool exits on
\* an error and reports a valid signature otherwise.
Validated ==
    /\ cli.pc = "validating"
    /\ callee = "IsValid"
    /\ vpc = "done"
    /\ IF verr # "nil"
       THEN cli' = Fail("Error validating signature")
       ELSE cli' = [cli EXCEPT !.pc = "writing",
                               !.stdout = Append(@, "Signature is valid")]
    /\ UNCHANGED << fileVars, call, handles, peer, writes >>

\* os.WriteFile(outputPath, buf, 0600) and the end of main; err is what the
\* call returns.
WriteFile(err) ==
    /\ cli.pc = "writing"
    /\ writes' = Append(writes, [path |-> OutputPath(cli.inParam, cli.outParam),
                                 data |-> cli.buf, err |-> err])
    /\ IF err # "nil"
       THEN cli' = Fail("Error writing output file")
       ELSE cli' = [cli EXCEPT !.pc = "exited", !.exit = 0,
                               !.stdout = Append(@, "Successfully extracted signature")]
    /\ UNCHANGED << fileVars, call, handles, peer >>

\* Another process replaces the bytes of the input file while the tool runs.
Rewrite ==
    /\ cli.pc \in {"extracting", "validating"}
    /\ ~modified
    /\ fileData' = OtherData(fileData)
    /\ modified' = TRUE
    /\ UNCHANGED << peHeader, call, handles, peer, front >>

\* sigtool.ExtractDigitalSignature(*inParam), called by main.
CallExtract ==
    /\ cli.pc = "extracting"
    /\ callee = "none"
    /\ Open(cli.inParam)

\* sigtool.IsValidDigitalSignature(*inParam), called by main.
CallValidate ==
    /\ cli.pc = "validating"
    /\ callee = "none"
    /\ Validate(cli.inParam)

\* ExtractDigitalSignature(filePath), called by IsValidDigitalSignature.
CallValidateExtract ==
    /\ cli.pc = "validating"
    /\ callee = "IsValid"
    /\ Open(cli.inParam)

NextCli ==
    \/ \E in \in InParams, out \in OutParams, validate \in BOOLEAN :
          Main(in, out, validate)
    \/ CallExtract
    \/ CallValidate
    \/ CallValidateExtract
    \/ \E ok \in BOOLEAN : Stat(ok)
    \/ Parse
    \/ \E ioError \in BOOLEAN : Read(ioError)
    \/ \E parseOK, verifyOK \in BOOLEAN : Verify(parseOK, verifyOK)
    \/ Extracted
    \/ Validated
    \/ \E err \in {"nil", "EACCES"} : WriteFile(err)
    \/ \E newLen \in 0 .. MaxFileLen : Truncate(newLen)
    \/ Rewrite

\* One run of the command-line tool on a file that another process may
\* modify once.
SpecCli == InitSeq /\ [][NextCli]_vars

TypeOK ==
    /\ pc \in {"idle", "opened", "statted", "reading", "done"}
    /\ vpc \in {"idle", "extracting", "done"}
    /\ callee \in {"none", "Extract", "IsValid"}
    /\ handles \in {0, 1}
    /\ vAddr \in U32 /\ size \in U32 /\ signatureDataSize \in U32
    /\ signatureOffset \in U32
    /\ fileSize \in 0 .. MaxFileLen

----------------------------------------------------------------------------
\* Vocabulary of the properties.

\* The call has returned after parsing a file with a PE32 or PE32+ optional
\* header whose length Stat obtained; fileSize is that length and
\* (peHeader.vAddr, peHeader.size) the security directory entry.
ReturnedOnEntry ==
    /\ pc = "done"
    /\ filePath = "file"
    /\ peHeader.kind \in {"PE32", "PE32+"}
    /\ result.err # "StatFailed"

\* The positioned read of the payload has been issued.
ReadIssued == reads # << >>

\* The offset and the size of the payload as mathematical integers.
MathOffset == peHeader.vAddr + SecurityDirHeaderSize

MathPayload == peHeader.size - SecurityDirHeaderSize

\* The offset and the size of the payload in 32-bit wrapping arithmetic.
WrapOffset == (peHeader.vAddr + SecurityDirHeaderSize) % Word

WrapPayload == (peHeader.size - SecurityDirHeaderSize) % Word

\* The bytes of data at offsets off .. off + len - 1.
BytesAt(data, off, len) == [i \in 1 .. len |-> data[off + i]]

\* The file was not shortened during the call and no system call failed.
Undisturbed ==
    /\ ~modified
    /\ \A k \in 1 .. Len(reads) : ~reads[k].ioError

----------------------------------------------------------------------------
\* C1 as stated: for every parsed container whose security directory entry
\* has a non-zero fileOffset and a non-zero size and whose region [fileOffset, fileOffset + size) lies within
\* the file, the call succeeds and returns exactly the size - 8 bytes at file
\* offset fileOffset + 8.
C1_Original ==
    ( /\ ReturnedOnEntry
      /\ Undisturbed
      /\ peHeader.vAddr # 0 /\ peHeader.size # 0
      /\ peHeader.vAddr + peHeader.size <= fileSize )
    => /\ result.err = "nil"
       /\ Len(result.buf) = MathPayload
       /\ \A i \in 1 .. Len(result.buf) :
             /\ MathOffset + i <= Len(fileData)
             /\ result.buf[i] = fileData[MathOffset + i]

\* C1 as amended: for every parsed container with fileOffset # 0 and
\* 0 < size <= MaxSignatureSize for which signatureOffset = (fileOffset + 8)
\* mod 2^32 and payloadSize = (size - 8) mod 2^32 satisfy signatureOffset <
\* fileLength and signatureOffset + payloadSize <= fileLength, a call during
\* which the file is not modified and no read fails succeeds and returns
\* exactly the payloadSize file bytes that start at signatureOffset, unchanged
\* and in order.
C1_Extract ==
    ( /\ ReturnedOnEntry
      /\ Undisturbed
      /\ peHeader.vAddr # 0
      /\ 0 < peHeader.size /\ peHeader.size <= MaxSignatureSize
      /\ WrapOffset < fileSize
      /\ WrapOffset + WrapPayload <= fileSize )
    => /\ result.err = "nil"
       /\ Len(result.buf) = WrapPayload
       /\ \A i \in 1 .. Len(result.buf) :
             /\ WrapOffset + i <= Len(fileData)
             /\ result.buf[i] = fileData[WrapOffset + i]

\* A successful extraction of a payload of two bytes or more whose region
\* ends exactly at the last byte of the file.
C1_Witness ==
    /\ ReturnedOnEntry
    /\ Undisturbed
    /\ result.err = "nil"
    /\ Len(result.buf) >= 2
    /\ MathOffset + MathPayload = fileSize
    /\ result.buf = BytesAt(fileData, MathOffset, MathPayload)

\* C2 as stated: when the positioned read is issued, 0 < size <=
\* MaxSignatureSize, signatureOffset >= 0, signatureOffset < fileLength and
\* signatureOffset + payloadSize <= fileLength hold of the entry and of the
\* length obtained by Stat, with fileOffset + 8 and size - 8 taken as
\* mathematical integers.
C2_Original ==
    ReadIssued =>
        /\ 0 < peHeader.size /\ peHeader.size <= MaxSignatureSize
        /\ MathOffset >= 0
        /\ MathOffset < fileSize
        /\ MathOffset + MathPayload <= fileSize

\* C3 as stated: for fileOffset + 8 >= 2^32 and 0 < size <= MaxSignatureSize
\* the call fails with OffsetOutOfBounds whenever the file is not longer than
\* fileOffset + 8, and no read is issued at the wrapped offset.
C3_Original ==
    ( /\ ReturnedOnEntry
      /\ MathOffset >= Word
      /\ 0 < peHeader.size /\ peHeader.size <= MaxSignatureSize )
    => /\ fileSize <= MathOffset => result.err = "OffsetOutOfBounds"
       /\ \A k \in 1 .. Len(reads) : reads[k].off # MathOffset % Word

\* C4 as stated: for every declared entry with signatureOffset + payloadSize
\* > fileLength the call fails with RegionExceedsFile and issues no read.
C4_Original ==
    ( /\ ReturnedOnEntry
      /\ MathOffset + MathPayload > fileSize )
    => /\ result.err = "RegionExceedsFile"
       /\ ~ReadIssued

\* C4 as amended: for every entry that passes the earlier checks (fileOffset
\* # 0, 0 < size <= MaxSignatureSize, signatureOffset < fileLength) and has
\* signatureOffset + payloadSize > fileLength, where signatureOffset =
\* (fileOffset + 8) mod 2^32 and payloadSize = (size - 8) mod 2^32, the call
\* fails with RegionExceedsFile and issues no read.
C4_RegionExceedsFile ==
    ( /\ ReturnedOnEntry
      /\ peHeader.vAddr # 0
      /\ 0 < peHeader.size /\ peHeader.size <= MaxSignatureSize
      /\ WrapOffset < fileSize
      /\ WrapOffset + WrapPayload > fileSize )
    => /\ result.err = "RegionExceedsFile"
       /\ result.buf = << >>
       /\ ~ReadIssued

\* A region of at least the 8 header bytes that starts inside the file and
\* ends one byte past its end was refused.
C4_Witness ==
    /\ ReturnedOnEntry
    /\ peHeader.size > SecurityDirHeaderSize
    /\ MathOffset < fileSize
    /\ MathOffset + MathPayload = fileSize + 1
    /\ result.err = "RegionExceedsFile"
    /\ ~ReadIssued

\* C5 as stated: for every parsed container whose entry declares size >
\* MaxSignatureSize the call fails with SizeLimitExceeded, whatever the
\* declared fileOffset and the file length are.
C5_Original ==
    ( /\ ReturnedOnEntry
      /\ peHeader.size > MaxSignatureSize )
    => result.err = "SizeLimitExceeded"

\* C5 as amended: for every parsed container whose entry declares size >
\* MaxSignatureSize and a non-zero fileOffset the call fails with
\* SizeLimitExceeded, whatever the file length is; with fileOffset = 0 it
\* fails with NotSigned.
C5_SizeLimitExceeded ==
    ( /\ ReturnedOnEntry
      /\ peHeader.size > MaxSignatureSize )
    => /\ result.err = (IF peHeader.vAddr = 0 THEN "NotSigned"
                                              ELSE "SizeLimitExceeded")
       /\ result.buf = << >>
       /\ ~ReadIssued

\* An entry one byte over the limit whose region lies within the file was
\* refused with SizeLimitExceeded.
C5_Witness ==
    /\ ReturnedOnEntry
    /\ peHeader.size = MaxSignatureSize + 1
    /\ peHeader.vAddr # 0
    /\ peHeader.vAddr + peHeader.size <= fileSize
    /\ result.err = "SizeLimitExceeded"

\* C6: for every parsed container whose entry is (0, 0) the call fails with
\* NotSigned and returns no bytes.
C6_NotSigned ==
    ( /\ ReturnedOnEntry
      /\ peHeader.vAddr = 0
      /\ peHeader.size = 0 )
    => /\ result.err = "NotSigned"
       /\ result.buf = << >>
       /\ ~ReadIssued

\* The call returned NotSigned for a (0, 0) entry of a file long enough to
\* hold a payload.
C6_Witness ==
    /\ ReturnedOnEntry
    /\ peHeader.vAddr = 0
    /\ peHeader.size = 0
    /\ fileSize > SecurityDirHeaderSize
    /\ result.err = "NotSigned"

\* C7 as stated: NotSigned is reported only when both fields are zero; an
\* entry with exactly one zero field fails with MalformedSecurityDirectory.
C7_Original ==
    ReturnedOnEntry =>
        /\ result.err = "NotSigned" => (peHeader.vAddr = 0 /\ peHeader.size = 0)
        /\ (peHeader.vAddr = 0) # (peHeader.size = 0)
              => result.err = "MalformedSecurityDirectory"

\* C7 as amended: NotSigned is reported exactly when at least one of
\* fileOffset and size is zero; an entry with exactly one zero field fails
\* with NotSigned, as the entry (0, 0) does.
C7_PartialZero ==
    ReturnedOnEntry =>
        (result.err = "NotSigned" <=> (peHeader.vAddr = 0 \/ peHeader.size = 0))

\* An entry with a non-zero fileOffset and size 0 was reported as NotSigned.
C7_Witness ==
    /\ ReturnedOnEntry
    /\ peHeader.vAddr # 0
    /\ peHeader.size = 0
    /\ result.err = "NotSigned"

\* C8 as stated: for every entry with fileOffset > 0 and 0 < size < 8 whose
\* signatureOffset lies inside the file the call fails with
\* MalformedSecurityDirectory, and no read of a wrapped size - 8 is issued.
C8_Original ==
    ( /\ ReturnedOnEntry
      /\ peHeader.vAddr > 0
      /\ 0 < peHeader.size /\ peHeader.size < SecurityDirHeaderSize
      /\ MathOffset < fileSize )
    => /\ result.err = "MalformedSecurityDirectory"
       /\ ~ReadIssued

C10_Original ==
    ( /\ pc = "done"
      /\ ReadIssued
      /\ ~reads[1].ioError
      /\ reads[1].off + reads[1].len > reads[1].fileLen )
    => result.err = "IncompleteRead"

----------------------------------------------------------------------------
\* Vocabulary of the properties of the calls.

\* The operations on the file system among the entries of the trace.
FsOps == {"open", "stat", "newfile", "readat", "close"}

\* The call did op.
Did(op) == \E k \in 1 .. Len(trace) : trace[k] = op

\* ExtractDigitalSignature has returned, called directly or by
\* IsValidDigitalSignature.
ExtractReturned == pc = "done"

\* IsValidDigitalSignature has returned.
ValidateReturned == callee = "IsValid" /\ vpc = "done"

\* IsValidDigitalSignature called fn of the signed-data library.
Called(fn) == \E k \in 1 .. Len(pkcs7Calls) : pkcs7Calls[k].fn = fn

\* C11: for a blank path ExtractDigitalSignature and IsValidDigitalSignature
\* fail with InvalidArgument, and no operation on the file system (open,
\* stat, read) has been performed at any point of the call.
C11_BlankPath ==
    filePath = "blank" =>
        /\ trace = << >>
        /\ reads = << >>
        /\ handles = 0
        /\ callee = "Extract" => (pc = "done" /\ result = Return(<< >>, "InvalidArgument"))
        /\ callee = "IsValid" => (vpc = "done" /\ verr = "InvalidArgument" /\ pc = "idle")

\* IsValidDigitalSignature returned InvalidArgument for a blank path of a
\* file that holds a payload.
C11_Witness ==
    /\ ValidateReturned
    /\ filePath = "blank"
    /\ verr = "InvalidArgument"
    /\ peHeader.kind = "PE32"
    /\ peHeader.vAddr # 0
    /\ peHeader.size > SecurityDirHeaderSize

\* C12: successive calls of ExtractDigitalSignature on the same path, the
\* file not modified and no system call failing, return the same outcome:
\* the same bytes on success, the same error on failure.
C12_Idempotent ==
    (callee = "Extract" /\ pc = "done" /\ ~modified /\ ~IoFailed) =>
        \A k \in 1 .. Len(history) :
            ( /\ history[k].callee = "Extract"
              /\ history[k].path = filePath
              /\ ~history[k].ioFailed )
            => history[k].result = result

\* Two successive calls on the same file both returned the same payload of
\* two bytes or more.
C12_Witness ==
    /\ callee = "Extract"
    /\ pc = "done"
    /\ ~modified
    /\ Len(history) = 1
    /\ history[1].callee = "Extract"
    /\ history[1].result.err = "nil"
    /\ Len(history[1].result.buf) >= 2
    /\ result = history[1].result

\* C13: when the signed-data parser rejects the bytes extracted from a
\* container, IsValidDigitalSignature fails with SignatureStructureInvalid
\* without calling the verifier, and a call of ExtractDigitalSignature on the
\* same unmodified file succeeded and returned those bytes.
C13_StructureInvalid ==
    ( /\ ValidateReturned
      /\ Called("Parse")
      /\ ~pkcs7Calls[1].ok )
    => /\ verr = "SignatureStructureInvalid"
       /\ ~Called("Verify")
       /\ result = Return(peExtract, "nil")
       /\ \A k \in 1 .. Len(history) :
             ( /\ history[k].callee = "Extract"
               /\ history[k].path = filePath
               /\ ~history[k].ioFailed
               /\ ~modified )
             => history[k].result = Return(peExtract, "nil")

\* ExtractDigitalSignature returned a payload, and IsValidDigitalSignature,
\* called next on the same file, failed with SignatureStructureInvalid.
C13_Witness ==
    /\ ValidateReturned
    /\ verr = "SignatureStructureInvalid"
    /\ Len(peExtract) >= 2
    /\ ~modified
    /\ Len(history) = 1
    /\ history[1].callee = "Extract"
    /\ history[1].result = Return(peExtract, "nil")

\* C14: IsValidDigitalSignature succeeds exactly when the extraction
\* succeeded, the parser accepted and the verifier accepted; an extraction
\* failure, a parser rejection and a verifier rejection give three different
\* errors, each for its cause only.
C14_Verdicts ==
    ValidateReturned =>
        /\ verr \in {"nil", "InvalidArgument", "ExtractionFailed",
                     "SignatureStructureInvalid", "VerificationFailed"}
        /\ verr = "nil" <=>
              /\ pc = "done" /\ result.err = "nil"
              /\ pkcs7Calls = << [fn |-> "Parse", ok |-> TRUE],
                                 [fn |-> "Verify", ok |-> TRUE] >>
        /\ verr = "ExtractionFailed" <=> (pc = "done" /\ result.err # "nil")
        /\ verr = "SignatureStructureInvalid" <=>
              /\ pc = "done" /\ result.err = "nil"
              /\ pkcs7Calls = << [fn |-> "Parse", ok |-> FALSE] >>
        /\ verr = "VerificationFailed" <=>
              /\ pc = "done" /\ result.err = "nil"
              /\ pkcs7Calls = << [fn |-> "Parse", ok |-> TRUE],
                                 [fn |-> "Verify", ok |-> FALSE] >>
        /\ verr = "InvalidArgument" <=> pc = "idle"

\* The verifier rejected a signature that was extracted and parsed.
C14_Witness ==
    /\ ValidateReturned
    /\ verr = "VerificationFailed"
    /\ result.err = "nil"
    /\ Len(peExtract) >= 2
    /\ Called("Verify")

\* C15: on every path where ExtractDigitalSignature returns an error the
\* byte sequence it returns is nil; nothing is returned before the return.
C15_FailClosed ==
    /\ (pc = "done" /\ result.err # "nil") => result.buf = << >>
    /\ pc # "done" => result = NoResult

\* The read failed after it had filled a part of the buffer, and the call
\* returned nil with the error.
C15_Witness ==
    /\ pc = "done"
    /\ result.err = "ReadFailed"
    /\ result.buf = << >>
    /\ \E i \in 1 .. Len(buf) : buf[i] # 0
    /\ \E i \in 1 .. Len(buf) : buf[i] = 0

\* C16: a call that opened the file has closed its handle when it returns,
\* on every path; a call that fails before or at the open holds none; after
\* any sequence of calls no handle is open.
C16_HandlesClosed ==
    /\ handles = (IF pc \in {"opened", "statted", "reading"} THEN 1 ELSE 0)
    /\ (pc = "done" /\ result.err \notin {"InvalidArgument", "OpenFailed"}) =>
          /\ trace[1] = "open"
          /\ trace[Len(trace)] = "close"
    /\ (pc = "done" /\ result.err \in {"InvalidArgument", "OpenFailed"}) =>
          ~Did("close")

\* After a call whose read failed, a second call returned a payload, and no
\* handle is open.
C16_Witness ==
    /\ pc = "done"
    /\ result.err = "nil"
    /\ Len(result.buf) >= 1
    /\ Did("close")
    /\ Len(history) = 1
    /\ history[1].result.err = "ReadFailed"
    /\ handles = 0

\* C17: with no process modifying the files, each of two concurrent calls
\* of ExtractDigitalSignature, on the same file or on different files,
\* returns what it returns when it runs alone, in every interleaving.
C17_Independent ==
    /\ (pc = "done" /\ ~IoFailed) =>
          result = ExtractAlone(filePath, fileData, peHeader)
    /\ (peer.pc = "done" /\ ~peer.ioFailed) =>
          peer.result = ExtractAlone(peer.path, DataOf(peer.file), peHeader)

\* Two calls that overlapped, on different files, both returned the payload
\* of their own file.
C17_Witness ==
    /\ pc = "done"
    /\ peer.pc = "done"
    /\ peer.overlapped
    /\ peer.file = "other"
    /\ result.err = "nil"
    /\ peer.result.err = "nil"
    /\ Len(result.buf) >= 2
    /\ result.buf # peer.result.buf

C19_OpenFailed ==
    filePath = "missing" =>
        /\ reads = << >>
        /\ handles = 0
        /\ pc \in {"idle", "done"}
        /\ pc = "done" => (result = Return(<< >>, "OpenFailed") /\ trace = << "open" >>)
        /\ ValidateReturned => (verr = "ExtractionFailed" /\ pkcs7Calls = << >>)

\* IsValidDigitalSignature reported the extraction failure of a path that
\* cannot be opened.
C19_Witness ==
    /\ ValidateReturned
    /\ filePath = "missing"
    /\ verr = "ExtractionFailed"
    /\ result.err = "OpenFailed"

\* C20 as stated: for every discriminant other than the two supported ones,
\* an absent optional header included, the call fails with UnsupportedFormat
\* and reads no security directory entry.
C20_Original ==
    ( /\ pc = "done"
      /\ filePath = "file"
      /\ result.err # "StatFailed"
      /\ peHeader.kind \in {"badMagic", "noOptionalHeader"} )
    => /\ result.err = "UnsupportedFormat"
       /\ ~Did("entry")

\* C20 as amended: a security directory entry is read only from a PE32 or a
\* PE32+ optional header; with an absent optional header the call fails with
\* UnsupportedFormat, with any other discriminant pe.NewFile rejects the file
\* and the call fails with MalformedContainer; in both cases no entry and no
\* payload is read.
C20_Unsupported ==
    /\ Did("entry") => peHeader.kind \in {"PE32", "PE32+"}
    /\ ( /\ pc = "done"
         /\ filePath = "file"
         /\ result.err # "StatFailed"
         /\ peHeader.kind \in {"badMagic", "noOptionalHeader"} )
       => /\ result = Return(<< >>, IF peHeader.kind = "noOptionalHeader"
                                    THEN "UnsupportedFormat"
                                    ELSE "MalformedContainer")
          /\ ~Did("entry")
          /\ reads = << >>

\* The call on a file without optional header returned UnsupportedFormat.
C20_Witness ==
    /\ pc = "done"
    /\ peHeader.kind = "noOptionalHeader"
    /\ result.err = "UnsupportedFormat"
    /\ ~Did("entry")

----------------------------------------------------------------------------
\* Vocabulary of the properties of the errors.

\* The count the read of the call returned, 0 when no read was issued.
ReadCount ==
    IF reads = << >> \/ reads[1].ioError THEN 0
    ELSE Min(reads[1].len,
             IF reads[1].off >= Len(fileData) THEN 0
             ELSE Len(fileData) - reads[1].off)

\* The values the error that the call returned carries in its message.
ErrorValues ==
    ErrorArgs(result.err, size, SignatureOffset(vAddr), SignatureDataSize(size),
              fileSize, ReadCount)

\* The error that the call returned carries a value named name.
Carries(name) == \E k \in 1 .. Len(ErrorValues) : ErrorValues[k].name = name

\* The failures of the validation of the bounds.
BoundsFamily ==
    {"SizeLimitExceeded", "OffsetOutOfBounds", "RegionExceedsFile", "IncompleteRead"}

\* C21 as stated: every failure of the bounds family that the call returns
\* carries the offending values, the declared offset or size and the limit
\* or the length of the file it was compared against, and the values it
\* carries are those of the entry and of the file.
C21_Original ==
    (ReturnedOnEntry /\ result.err \in BoundsFamily) =>
        /\ Carries("size") \/ Carries("signatureOffset") \/ Carries("signatureDataSize")
        /\ Carries("MaxSignatureSize") \/ Carries("fileSize") \/ Carries("n")
        /\ \A k \in 1 .. Len(ErrorValues) :
              ErrorValues[k].value =
                  CASE ErrorValues[k].name = "size" -> peHeader.size
                    [] ErrorValues[k].name = "signatureOffset" -> WrapOffset
                    [] ErrorValues[k].name = "signatureDataSize" -> WrapPayload
                    [] ErrorValues[k].name = "MaxSignatureSize" -> MaxSignatureSize
                    [] ErrorValues[k].name = "fileSize" -> fileSize
                    [] OTHER -> ReadCount

----------------------------------------------------------------------------
\* C23 as stated: the policy is evaluated in the order NotSigned,
\* SizeLimitExceeded, OffsetOutOfBounds, MalformedSecurityDirectory,
\* RegionExceedsFile and the first violated rule gives the error; an entry
\* over the limit whose offset is out of bounds fails with SizeLimitExceeded,
\* an entry whose offset is out of bounds and whose region exceeds the file
\* fails with OffsetOutOfBounds.  The rules are taken on the values the code
\* compares, with NotSigned as the code tests it.
C23_Original ==
    ReturnedOnEntry =>
        LET first ==
              IF peHeader.vAddr = 0 \/ peHeader.size = 0 THEN "NotSigned"
              ELSE IF peHeader.size > MaxSignatureSize THEN "SizeLimitExceeded"
              ELSE IF WrapOffset >= fileSize THEN "OffsetOutOfBounds"
              ELSE IF peHeader.size < SecurityDirHeaderSize
                   THEN "MalformedSecurityDirectory"
              ELSE IF WrapOffset + MathPayload > fileSize THEN "RegionExceedsFile"
              ELSE "nil"
        IN  /\ first # "nil" => result = Return(<< >>, first)
            /\ first = "nil" => result.err \in {"nil", "ReadFailed", "IncompleteRead"}

\* C24: IsValidDigitalSignature runs extract, parse and verify in this order,
\* each stage only after the one before succeeded: after a failed extraction
\* it returns the extraction failure and neither the parser nor the verifier
\* has been called, after a rejection by the parser the verifier has not been
\* called.
C24_StageOrder ==
    /\ pkcs7Calls # << >> =>
          /\ pc = "done" /\ result.err = "nil"
          /\ peExtract = result.buf
          /\ pkcs7Calls[1].fn = "Parse"
    /\ \A k \in 1 .. Len(pkcs7Calls) :
          pkcs7Calls[k].fn = "Verify" =>
              /\ k = 2
              /\ pkcs7Calls[1] = [fn |-> "Parse", ok |-> TRUE]
    /\ Len(pkcs7Calls) <= 2
    /\ (callee = "IsValid" /\ pc = "done" /\ result.err # "nil") =>
          /\ pkcs7Calls = << >>
          /\ vpc = "done" => verr = "ExtractionFailed"
    /\ (callee = "IsValid" /\ vpc # "done") => pkcs7Calls = << >>

\* IsValidDigitalSignature on a container that is not signed returned the
\* extraction failure without a call of the parser or of the verifier.
C24_Witness ==
    /\ ValidateReturned
    /\ result.err = "NotSigned"
    /\ verr = "ExtractionFailed"
    /\ trace = << "open", "stat", "newfile", "entry", "close" >>
    /\ pkcs7Calls = << >>

\* C25 as stated: every buffer the call allocates for the payload has at most
\* MaxSignatureSize bytes, for every entry and every length of the file.
C25_Original == Len(buf) <= MaxSignatureSize

\* C26 as stated: whenever the call returns successfully the bytes it
\* returns are not empty; an entry with size = 8 never gives a successful
\* empty result.
C26_Original ==
    (pc = "done" /\ result.err = "nil") => Len(result.buf) >= 1

\* C26 as amended: whenever the call returns successfully it returns exactly
\* (size - 8) mod 2^32 bytes; the result is empty exactly when size = 8, and
\* an entry with size = 8 and a non-zero fileOffset whose signatureOffset lies
\* inside the file always gives a successful empty result.
C26_EmptyAtEight ==
    /\ (pc = "done" /\ result.err = "nil") =>
          /\ Len(result.buf) = WrapPayload
          /\ result.buf = << >> <=> peHeader.size = SecurityDirHeaderSize
    /\ ( /\ ReturnedOnEntry
         /\ peHeader.size = SecurityDirHeaderSize
         /\ peHeader.vAddr # 0
         /\ WrapOffset < fileSize )
       => result = Return(<< >>, "nil")

\* The call on an entry with size = 8 issued a read of no byte in the middle
\* of the file and returned an empty result without error.
C26_Witness ==
    /\ ReturnedOnEntry
    /\ peHeader.size = SecurityDirHeaderSize
    /\ ReadIssued
    /\ reads[1].len = 0
    /\ reads[1].off + 1 < Len(fileData)
    /\ result = Return(<< >>, "nil")

----------------------------------------------------------------------------
\* Vocabulary of the properties of the command-line tool.

\* The tool has called os.WriteFile.
Wrote == writes # << >>

\* The tool has saved the signature: os.WriteFile returned without error.
Saved == \E k \in 1 .. Len(writes) : writes[k].err = "nil"

\* The tool printed msg on its standard output.
Reported(msg) == \E k \in 1 .. Len(cli.stdout) : cli.stdout[k] = msg

\* IsValidDigitalSignature was called in this run and returned without error.
ValidatedOK == ValidateReturned /\ verr = "nil"

\* What the call of ExtractDigitalSignature of main returned, NoResult before
\* it returns.
MainExtract ==
    IF callee = "Extract" /\ pc = "done" THEN result
    ELSE IF history # << >> THEN history[1].result
    ELSE NoResult

C27_WriteLast ==
    /\ Wrote =>
          /\ Len(writes) = 1
          /\ MainExtract.err = "nil"
          /\ writes[1].data = MainExtract.buf
          /\ writes[1].path = OutputPath(cli.inParam, cli.outParam)
          /\ cli.validate => ValidatedOK
          /\ cli.pc = "exited"
    /\ ( \/ cli.pc # "start" /\ cli.inParam = "empty"
         \/ MainExtract.err \notin {"nil", "pending"}
         \/ ValidateReturned /\ verr # "nil" )
       => /\ ~Wrote
          /\ cli.pc \in {"extracting", "validating"} \/ cli.exit = 1
    /\ cli.pc = "exited" =>
          cli.exit = (IF Saved THEN 0 ELSE 1)

\* The verifier rejected the signature in a run with -validate: the tool
\* exited with status 1 and wrote nothing.
C27_Witness ==
    /\ cli.pc = "exited"
    /\ cli.exit = 1
    /\ cli.validate
    /\ verr = "VerificationFailed"
    /\ Len(cli.buf) >= 2
    /\ writes = << >>

\* C28 as stated: in a run with -validate that writes an output file the
\* bytes written are the bytes handed to the parser and the verifier in that
\* run, also when another process modifies the input file during the run.
C28_Original ==
    (cli.validate /\ Wrote) => writes[1].data = peExtract

\* C29: ExtractDigitalSignature and IsValidDigitalSignature are read-only
\* over the input file: no step of a call, successful or failing, changes
\* the length or the bytes of the file or its headers; only another process
\* does.
C29_ReadOnly ==
    [][modified' = modified => (fileData' = fileData /\ peHeader' = peHeader)]_vars

\* A successful call of IsValidDigitalSignature and a call of
\* ExtractDigitalSignature whose read failed have returned, and the file
\* holds the bytes it held before them.
C29_Witness ==
    /\ Len(history) = 1
    /\ history[1].callee = "IsValid"
    /\ history[1].verr = "nil"
    /\ callee = "Extract"
    /\ pc = "done"
    /\ result.err = "ReadFailed"
    /\ ~modified
    /\ fileData = FileContent(Len(fileData))
    /\ Len(fileData) >= SecurityDirHeaderSize + 2

====
